---- MODULE Spec2Model ----
(***************************************************************************)
(* A model of scrape_eventbrite.py: one batch run that reads the API       *)
(* credential, validates it, searches each region page by page,            *)
(* normalizes, filters to the look-ahead window, deduplicates by           *)
(* (name, start) and writes events.json and events.md.                     *)
(*                                                                         *)
(* Conventions of the model                                                *)
(*  - Python None is the value None below; a text is modelled by its       *)
(*    length (only text[:256] is ever taken of a response body);           *)
(*  - an f-string "a:b:c" is the tuple <<a, b, c>> of its colon-separated  *)
(*    parts, so the "kind" or "tag" of a message is its first part;        *)
(*  - a start string is a record [kind, t]: kind says what                 *)
(*    datetime.fromisoformat makes of it, t is the instant it denotes;     *)
(*  - time is counted in days.                                             *)
(***************************************************************************)
EXTENDS Integers, Sequences, FiniteSets, TLC

VARIABLES
    pc,            \* position of the run in main / fetch_events
    token,         \* os.environ.get("EVENTBRITE_TOKEN")
    log,           \* what the run did to the outside world, in order
    state,         \* index in DEFAULT_STATES of the region being searched
    page,          \* params["page"] of search_region
    results,       \* search_region: results
    warnings,      \* search_region: warnings
    all_raw,       \* fetch_events: all_raw
    all_warnings,  \* fetch_events: all_warnings
    normalized,    \* fetch_events: normalized
    now,           \* filter_upcoming: now
    upcoming,      \* fetch_events: upcoming
    unique,        \* fetch_events: unique
    jsonFile,      \* contents of events.json
    mdFile,        \* contents of events.md
    exitCode       \* the process's exit status, NotExited while it runs

vars == <<pc, token, log, state, page, results, warnings, all_raw, all_warnings,
          normalized, now, upcoming, unique, jsonFile, mdFile, exitCode>>

---------------------------------------------------------------------------
(* Bounds of the model *)

\* search_region has no page cap; the API is taken to stop after this page
MaxPages == 2
\* raw events returned over the whole run
MaxRaw == 2
\* length of the input sequences of the stage specifications
MaxLen == 3

---------------------------------------------------------------------------
(* Program constants *)

LOOKAHEAD_DAYS == 60
SNIPPET_LEN == 256
DEFAULT_STATES == <<"Montana", "Wyoming">>

None == "None"
NotExited == -1
\* a file this run has not written: absent, or left by an earlier run
PreviousRun == [previous_run |-> TRUE]

---------------------------------------------------------------------------
(* Values the environment supplies *)

\* EVENTBRITE_TOKEN: unset, set to the empty string, set to a token
Tokens == {None, "", "tok"}

\* status codes of a response
Statuses == {200, 401, 403, 404, 429, 500}

\* lengths of the body of the identity response, and of str(exc)
TextLens == {0, 300}

\* lengths of the body of a search response that is not read as JSON
SearchTextLens == {300}

\* the clock at the call of filter_upcoming
NowValues == {100, 101}

\* a start string by what datetime.fromisoformat makes of it: None (no
\* string at all), the empty string, a string it rejects with ValueError,
\* a naive datetime t, an offset-aware datetime t
NoStart == [kind |-> "none", t |-> 0]
EmptyStart == [kind |-> "empty", t |-> 0]
InvalidStart == [kind |-> "invalid", t |-> 0]
Naive(t) == [kind |-> "naive", t |-> t]
Aware(t) == [kind |-> "aware", t |-> t]

Min(a, b) == IF a <= b THEN a ELSE b

BoundedSeq(S, n) == UNION {[1..k -> S] : k \in 0..n}

---------------------------------------------------------------------------
(* Records *)

\* a nested JSON member: missing, null, or an object
Missing == "absent"
Null == "null"
Obj == "obj"

\* raw["name"]
RawName(shape, text) == [shape |-> shape, text |-> text]
\* raw["start"], raw["end"]
RawTime(shape, local) == [shape |-> shape, local |-> local]
\* raw["venue"]["address"]
RawAddress(shape, city) ==
    [shape |-> shape, city |-> city, region |-> None,
     localized_address_display |-> None]
\* raw["venue"]
RawVenue(shape, name, address) == [shape |-> shape, name |-> name, address |-> address]

NoVenue == RawVenue(Missing, None, RawAddress(Missing, None))

\* a RawEvent of the API, with the members normalize_events reads
RawEvent(id, name, start, venue) ==
    [id |-> id, name |-> name, url |-> None, start |-> start,
     end |-> RawTime(Missing, NoStart), is_free |-> None, status |-> None,
     venue |-> venue]

\* a record as normalize_events builds it
Normalized(id, name, start) ==
    [id |-> id, name |-> name, url |-> None, start |-> start, end |-> NoStart,
     is_free |-> None, status |-> None, city |-> None, state |-> None,
     venue_name |-> None, address |-> None]

---------------------------------------------------------------------------
(* save_json, save_markdown *)

\* Python truthiness of an optional string
Truthy(s) == s # None /\ s # ""
\* Python truthiness of a start string
TruthyStart(s) == s.kind \notin {"none", "empty"}

\* the parts of e that are present, in the order venue, address, city, state
LocParts(e) ==
    (IF Truthy(e.venue_name) THEN <<e.venue_name>> ELSE <<>>)
    \o (IF Truthy(e.address) THEN <<e.address>> ELSE <<>>)
    \o (IF Truthy(e.city) THEN <<e.city>> ELSE <<>>)
    \o (IF Truthy(e.state) THEN <<e.state>> ELSE <<>>)

\* the block of lines of one event; an omitted line is None / NoStart / <<>>
Block(e) ==
    [title |-> IF Truthy(e.name) THEN e.name ELSE "Unnamed Event",
     date |-> IF TruthyStart(e.start) THEN e.start ELSE NoStart,
     location |-> LocParts(e),
     signup |-> IF Truthy(e.url) THEN e.url ELSE None]

\* the text save_markdown writes
save_markdown(events) ==
    [heading |-> "Upcoming Veteran Events in Montana and Wyoming",
     notice |-> IF events = <<>>
                THEN <<"No events found within the next", LOOKAHEAD_DAYS, "days.">>
                ELSE <<>>,
     blocks |-> [i \in 1..Len(events) |-> Block(events[i])]]

\* the payload of a failure, as main and get_token build it
FailurePayload(error) == [generated |-> FALSE, error |-> error]

---------------------------------------------------------------------------
(* Responses *)

\* resp.text[:256] of a body of n characters
Snippet(n) == Min(n, SNIPPET_LEN)

HttpTag(status) == "http_" \o ToString(status)

\* the outcome of session.get: the request raised (exc is the length of
\* str(exc)), or a response came back
TransportError(exc) ==
    [raised |-> TRUE, exc |-> exc, status_code |-> 0, text |-> 0,
     json |-> "none", events |-> <<>>, pagination |-> "none"]
\* a response whose body is not read as JSON by the code
Response(status, text) ==
    [raised |-> FALSE, exc |-> 0, status_code |-> status, text |-> text,
     json |-> "none", events |-> <<>>, pagination |-> "none"]
\* a response with a body: json is "invalid" (resp.json() raises ValueError),
\* "array" (valid JSON that is no object) or "object"; of an object, events
\* is data["events"] (<<>> also stands for a missing or null member) and
\* pagination is "absent", "null", "more" or "last" (has_more_items)
Body(status, text, json, events, pagination) ==
    [raised |-> FALSE, exc |-> 0, status_code |-> status, text |-> text,
     json |-> json, events |-> events, pagination |-> pagination]

---------------------------------------------------------------------------
(* get_token *)

\* `token is None` in place of `not token`
TokenMissingUnsetOnly(t) == t = None

\* `not token`
TokenMissing(t) == t = None \/ t = ""

---------------------------------------------------------------------------
(* validate_token *)

\* validate_token with the transport failure swallowed
ValidateErrorSwallowsTransport(r) ==
    IF r.raised \/ r.status_code = 200 THEN <<>>
    ELSE IF r.status_code \in {401, 403}
        THEN <<"token_invalid_or_forbidden", HttpTag(r.status_code), Snippet(r.text)>>
    ELSE IF r.status_code = 429
        THEN <<"rate_limited_on_token_validation", "http_429", Snippet(r.text)>>
    ELSE <<"token_validation_http_error", HttpTag(r.status_code), Snippet(r.text)>>

\* validate_token testing `== 401` in place of `in (401, 403)`
ValidateErrorForgets403(r) ==
    IF r.raised THEN <<"token_validation_request_error", r.exc>>
    ELSE IF r.status_code = 200 THEN <<>>
    ELSE IF r.status_code = 401
        THEN <<"token_invalid_or_forbidden", HttpTag(r.status_code), Snippet(r.text)>>
    ELSE IF r.status_code = 429
        THEN <<"rate_limited_on_token_validation", "http_429", Snippet(r.text)>>
    ELSE <<"token_validation_http_error", HttpTag(r.status_code), Snippet(r.text)>>

\* the RuntimeError validate_token raises on outcome r, <<>> when it returns
ValidateError(r) ==
    IF r.raised THEN <<"token_validation_request_error", r.exc>>
    ELSE IF r.status_code = 200 THEN <<>>
    ELSE IF r.status_code \in {401, 403}
        THEN <<"token_invalid_or_forbidden", HttpTag(r.status_code), Snippet(r.text)>>
    ELSE IF r.status_code = 429
        THEN <<"rate_limited_on_token_validation", "http_429", Snippet(r.text)>>
    ELSE <<"token_validation_http_error", HttpTag(r.status_code), Snippet(r.text)>>

---------------------------------------------------------------------------
(* search_region *)

\* the loop of search_region without its branch for 401 and 403
PageWarningWithoutAuthBranch(r, location_address) ==
    IF r.raised THEN <<"request_error", location_address, r.exc>>
    ELSE IF r.status_code = 404
        THEN <<"404", location_address, Snippet(r.text)>>
    ELSE IF r.status_code = 429
        THEN <<"rate_limited_http_429", location_address, Snippet(r.text)>>
    ELSE IF r.status_code # 200
        THEN <<HttpTag(r.status_code), location_address, Snippet(r.text)>>
    ELSE IF r.json = "invalid"
        THEN <<"invalid_json_response", location_address, Snippet(r.text)>>
    ELSE <<>>

\* the warning one iteration of the loop appends on outcome r for a region,
\* <<>> when it appends none
PageWarning(r, location_address) ==
    IF r.raised THEN <<"request_error", location_address, r.exc>>
    ELSE IF r.status_code = 404
        THEN <<"404", location_address, Snippet(r.text)>>
    ELSE IF r.status_code \in {401, 403}
        THEN <<"auth_error_" \o HttpTag(r.status_code), location_address, Snippet(r.text)>>
    ELSE IF r.status_code = 429
        THEN <<"rate_limited_http_429", location_address, Snippet(r.text)>>
    ELSE IF r.status_code # 200
        THEN <<HttpTag(r.status_code), location_address, Snippet(r.text)>>
    ELSE IF r.json = "invalid"
        THEN <<"invalid_json_response", location_address, Snippet(r.text)>>
    ELSE <<>>

\* data.get(...) on a body that is no object, or .get on a null pagination
PageRaises(r) ==
    /\ PageWarning(r, "") = <<>>
    /\ \/ r.json = "array"
       \/ r.pagination = "null"

\* str() of the AttributeError of PageRaises
PageError(r) ==
    IF r.json = "array" THEN <<"'list' object has no attribute 'get'">>
    ELSE <<"'NoneType' object has no attribute 'get'">>

\* the events an iteration adds to results before it raises, breaks or goes on
PageEvents(r) ==
    IF PageWarning(r, "") = <<>> /\ r.json = "object" THEN r.events ELSE <<>>

\* the loop going on to the next page after a failed page as well
HasMoreAfterWarning(r) ==
    /\ ~PageRaises(r)
    /\ (r.pagination = "more" \/ PageWarning(r, "") # <<>>)

\* the loop with a cap of its own on the number of pages, one page short of
\* what the API may offer
HasMoreCappedBelowApi(r) ==
    /\ PageWarning(r, "") = <<>>
    /\ ~PageRaises(r)
    /\ r.pagination = "more"
    /\ page < MaxPages - 1

\* the loop going on for as long as a page brings events, whatever
\* has_more_items says
HasMoreWhileEventsCome(r) ==
    /\ PageWarning(r, "") = <<>>
    /\ ~PageRaises(r)
    /\ (r.pagination = "more" \/ r.events # <<>>)

\* the loop goes on to the next page
HasMore(r) ==
    /\ PageWarning(r, "") = <<>>
    /\ ~PageRaises(r)
    /\ r.pagination = "more"

---------------------------------------------------------------------------
(* normalize_events *)

\* (x or {}).get(key): the member of a nested object, None when the object
\* is missing or null
Nested(x, key, none) == IF x.shape = Obj THEN x[key] ELSE none

normalize(e) ==
    LET address == IF e.venue.shape = Obj THEN e.venue.address
                   ELSE RawAddress(Missing, None)
    IN  [id |-> e.id,
         name |-> Nested(e.name, "text", None),
         url |-> e.url,
         start |-> Nested(e.start, "local", NoStart),
         end |-> Nested(e.end, "local", NoStart),
         is_free |-> e.is_free,
         status |-> e.status,
         city |-> Nested(address, "city", None),
         state |-> Nested(address, "region", None),
         venue_name |-> Nested(e.venue, "name", None),
         address |-> Nested(address, "localized_address_display", None)]

\* normalize_events leaving out the events that have no name object
normalize_eventsSkipsUnnamed(events) ==
    LET named(e) == e.name.shape = Obj
        kept == SelectSeq(events, named)
    IN  [i \in 1..Len(kept) |-> normalize(kept[i])]

normalize_events(events) == [i \in 1..Len(events) |-> normalize(events[i])]

---------------------------------------------------------------------------
(* filter_upcoming *)

\* the window with no lower end: past events pass
InWindowUpToCutoff(n, dt, cutoff) == dt <= cutoff

\* now <= dt <= cutoff
InWindow(n, dt, cutoff) == n <= dt /\ dt <= cutoff

\* the loop of filter_upcoming from events[i] on, with filtered so far:
\* [raised, value]; it raises TypeError at the first start that
\* fromisoformat reads as an offset-aware datetime, which Python refuses to
\* order against the naive now
RECURSIVE FilterLoop(_, _, _, _, _)
FilterLoop(events, i, n, cutoff, filtered) ==
    IF i > Len(events) THEN [raised |-> FALSE, value |-> filtered]
    ELSE LET start == events[i].start IN
         IF ~TruthyStart(start) THEN FilterLoop(events, i + 1, n, cutoff, filtered)
         ELSE IF start.kind = "invalid" THEN FilterLoop(events, i + 1, n, cutoff, filtered)
         ELSE IF start.kind = "aware" THEN [raised |-> TRUE, value |-> <<>>]
         ELSE IF InWindow(n, start.t, cutoff)
             THEN FilterLoop(events, i + 1, n, cutoff, Append(filtered, events[i]))
         ELSE FilterLoop(events, i + 1, n, cutoff, filtered)

filter_upcoming(events, days, n) == FilterLoop(events, 1, n, n + days, <<>>)

---------------------------------------------------------------------------
(* fetch_events: deduplication and the payload *)

\* the key taken of the name alone
KeyNameOnly(e) == <<e.name>>

\* key = (e.get("name"), e.get("start"))
Key(e) == <<e.name, e.start>>

\* the loop without seen.add(key)
RECURSIVE DedupLoopNeverAdds(_, _, _, _)
DedupLoopNeverAdds(events, i, seen, uniq) ==
    IF i > Len(events) THEN uniq
    ELSE IF Key(events[i]) \in seen THEN DedupLoopNeverAdds(events, i + 1, seen, uniq)
    ELSE DedupLoopNeverAdds(events, i + 1, seen, Append(uniq, events[i]))

RECURSIVE DedupLoop(_, _, _, _)
DedupLoop(events, i, seen, uniq) ==
    IF i > Len(events) THEN uniq
    ELSE IF Key(events[i]) \in seen THEN DedupLoop(events, i + 1, seen, uniq)
    ELSE DedupLoop(events, i + 1, seen \cup {Key(events[i])}, Append(uniq, events[i]))

Deduplicate(events) == DedupLoop(events, 1, {}, <<>>)

\* the count taken before the deduplication
CountOfUpcoming(upc, uniq) == Len(upc)

\* the "count" member of the payload
Count(upc, uniq) == Len(uniq)

SuccessPayload(upc, uniq, warns) ==
    [generated |-> TRUE, source |-> "eventbrite", query |-> "DEFAULT_QUERY",
     regions |-> DEFAULT_STATES, within |-> "DEFAULT_WITHIN",
     count |-> Count(upc, uniq), events |-> uniq, warnings |-> warns]

---------------------------------------------------------------------------
(* The run *)

\* an entry of log: a request with what came back of it at the transport
\* level (raised, status_code, and how the body reads as JSON), or the
\* pause between two pages
Request(op, region, p, r) ==
    [op |-> op, region |-> region, page |-> p, raised |-> r.raised,
     status_code |-> r.status_code, json |-> r.json,
     more |-> r.pagination = "more"]
Identity(r) == Request("identity", "", 0, r)
Search(region, p, r) == Request("search", region, p, r)
Sleep(region, p) ==
    [op |-> "sleep", region |-> region, page |-> p, raised |-> FALSE,
     status_code |-> 0, json |-> "none", more |-> FALSE]

\* an iteration that pauses after every request, whatever the answer
PageLogAlwaysSleeps(region, p, r) ==
    <<Search(region, p, r), Sleep(region, p)>>

\* what one iteration of the loop of search_region does to the outside: the
\* request for page p and, when the loop goes on, time.sleep(PAGE_DELAY_SEC)
PageLog(region, p, r) ==
    <<Search(region, p, r)>>
    \o (IF HasMore(r) THEN <<Sleep(region, p)>> ELSE <<>>)

\* the accumulator replaced by what the last region returned
ExtendOverwrites(all, returned) == returned

\* all_raw.extend(events), all_warnings.extend(warns)
Extend(all, returned) == all \o returned

\* the raw events the API returns in a run
InWindowTime == 130
RunEvents ==
    { RawEvent("1", RawName(Obj, "A"), RawTime(Obj, Naive(InWindowTime)), NoVenue),
      RawEvent("2", RawName(Obj, "A"), RawTime(Obj, Naive(InWindowTime)),
               RawVenue(Obj, "Hall", RawAddress(Obj, "Helena"))),
      RawEvent("3", RawName(Null, None), RawTime(Obj, Aware(InWindowTime)), NoVenue),
      RawEvent("4", RawName(Obj, "B"), RawTime(Obj, Naive(100)), NoVenue) }

\* outcomes of the identity request
ValidateOutcomes ==
    {TransportError(x) : x \in TextLens}
    \cup {Response(s, t) : s \in Statuses, t \in TextLens}

\* outcomes of the search request for page p when the run may still take
\* `room` raw events
SearchOutcomes(p, room) ==
    {TransportError(x) : x \in SearchTextLens}
    \cup {Response(s, t) : s \in Statuses \ {200}, t \in SearchTextLens}
    \cup {Body(200, t, "invalid", <<>>, "none") : t \in SearchTextLens}
    \cup {Body(200, 2, "array", <<>>, "none")}
    \cup {Body(200, 300, "object", ev, pg) :
            ev \in BoundedSeq(RunEvents, room),
            pg \in {"absent", "null", "last"}
                   \cup (IF p < MaxPages THEN {"more"} ELSE {})}

Init ==
    /\ pc = "get_token"
    /\ token \in Tokens
    /\ log = <<>>
    /\ state = 1
    /\ page = 1
    /\ results = <<>>
    /\ warnings = <<>>
    /\ all_raw = <<>>
    /\ all_warnings = <<>>
    /\ normalized = <<>>
    /\ now = 0
    /\ upcoming = <<>>
    /\ unique = <<>>
    /\ jsonFile = PreviousRun
    /\ mdFile = PreviousRun
    /\ exitCode = NotExited

\* save_json(payload); save_markdown(events); the process ends with code
WriteAndExit(payload, events, code) ==
    /\ jsonFile' = payload
    /\ mdFile' = save_markdown(events)
    /\ exitCode' = code
    /\ pc' = "exited"

\* main's except clause on an exception whose str() is error
Caught(error) == WriteAndExit(FailurePayload(error), <<>>, 1)

\* main: token = get_token()
GetToken ==
    /\ pc = "get_token"
    /\ IF TokenMissing(token)
       THEN WriteAndExit(FailurePayload(<<"EVENTBRITE_TOKEN is not set">>), <<>>, 2)
       ELSE /\ pc' = "validate_token"
            /\ UNCHANGED <<jsonFile, mdFile, exitCode>>
    /\ UNCHANGED <<token, log, state, page, results, warnings, all_raw,
                   all_warnings, normalized, now, upcoming, unique>>

\* fetch_events: validate_token(session, headers), with outcome r
ValidateToken(r) ==
    /\ pc = "validate_token"
    /\ log' = Append(log, Identity(r))
    /\ IF ValidateError(r) = <<>>
       THEN /\ pc' = "search_region"
            /\ UNCHANGED <<jsonFile, mdFile, exitCode>>
       ELSE Caught(ValidateError(r))
    /\ UNCHANGED <<token, state, page, results, warnings, all_raw,
                   all_warnings, normalized, now, upcoming, unique>>

\* the call search_region(..., state, ...) up to its loop
EnterRegion ==
    /\ pc = "search_region"
    /\ page' = 1
    /\ results' = <<>>
    /\ warnings' = <<>>
    /\ pc' = "page"
    /\ UNCHANGED <<token, log, state, all_raw, all_warnings, normalized, now,
                   upcoming, unique, jsonFile, mdFile, exitCode>>

\* one iteration of the loop of search_region, with outcome r of the
\* request; when the loop ends, the return into the loop of fetch_events
SearchPage(r) ==
    LET region == DEFAULT_STATES[state]
        warning == PageWarning(r, region)
        res == results \o PageEvents(r)
        warns == IF warning = <<>> THEN warnings ELSE Append(warnings, warning)
    IN  /\ pc = "page"
        /\ results' = res
        /\ warnings' = warns
        /\ log' = log \o PageLog(region, page, r)
        /\ IF PageRaises(r)
           THEN /\ Caught(PageError(r))
                /\ UNCHANGED <<state, page, all_raw, all_warnings>>
           ELSE IF HasMore(r)
           THEN /\ page' = page + 1
                /\ UNCHANGED <<pc, state, all_raw, all_warnings, jsonFile,
                               mdFile, exitCode>>
           ELSE /\ all_raw' = Extend(all_raw, res)
                /\ all_warnings' = Extend(all_warnings, warns)
                /\ IF state < Len(DEFAULT_STATES)
                   THEN state' = state + 1 /\ pc' = "search_region"
                   ELSE state' = state /\ pc' = "normalize"
                /\ UNCHANGED <<page, jsonFile, mdFile, exitCode>>
        /\ UNCHANGED <<token, normalized, now, upcoming, unique>>

\* an iteration of the loop, for every outcome the API may give
SearchStep ==
    \E r \in SearchOutcomes(page, MaxRaw - Len(all_raw) - Len(results)) :
        SearchPage(r)

\* fetch_events: normalized = normalize_events(all_raw)
NormalizeStep ==
    /\ pc = "normalize"
    /\ normalized' = normalize_events(all_raw)
    /\ pc' = "filter"
    /\ UNCHANGED <<token, log, state, page, results, warnings, all_raw,
                   all_warnings, now, upcoming, unique, jsonFile, mdFile, exitCode>>

\* fetch_events: upcoming = filter_upcoming(normalized, LOOKAHEAD_DAYS), the
\* clock reading n
FilterStep(n) ==
    LET f == filter_upcoming(normalized, LOOKAHEAD_DAYS, n)
    IN  /\ pc = "filter"
        /\ now' = n
        /\ IF f.raised
           THEN /\ Caught(<<"can't compare offset-naive and offset-aware datetimes">>)
                /\ UNCHANGED upcoming
           ELSE /\ upcoming' = f.value
                /\ pc' = "dedup"
                /\ UNCHANGED <<jsonFile, mdFile, exitCode>>
        /\ UNCHANGED <<token, log, state, page, results, warnings, all_raw,
                       all_warnings, normalized, unique>>

\* fetch_events: the deduplication loop
DedupStep ==
    /\ pc = "dedup"
    /\ unique' = Deduplicate(upcoming)
    /\ pc' = "return"
    /\ UNCHANGED <<token, log, state, page, results, warnings, all_raw,
                   all_warnings, normalized, now, upcoming, jsonFile, mdFile,
                   exitCode>>

\* fetch_events returns the payload; main writes both files and returns 0
ReturnAndSave ==
    LET payload == SuccessPayload(upcoming, unique, all_warnings)
    IN  /\ pc = "return"
        /\ WriteAndExit(payload, payload.events, 0)
        /\ UNCHANGED <<token, log, state, page, results, warnings, all_raw,
                       all_warnings, normalized, now, upcoming, unique>>

Next ==
    \/ GetToken
    \/ \E r \in ValidateOutcomes : ValidateToken(r)
    \/ EnterRegion
    \/ SearchStep
    \/ NormalizeStep
    \/ \E n \in NowValues : FilterStep(n)
    \/ DedupStep
    \/ ReturnAndSave

Spec == Init /\ [][Next]_vars

---------------------------------------------------------------------------
(* filter_upcoming on its own: every input sequence up to MaxLen *)

\* start values on both sides of both ends of the window, for every clock
\* reading of NowValues
FilterStarts ==
    {NoStart, EmptyStart, InvalidStart, Aware(InWindowTime)}
    \cup {Naive(t) : t \in {99, 100, 101, 102}}
    \cup {Naive(t + LOOKAHEAD_DAYS) : t \in {99, 100, 101, 102}}

FilterInputs == {Normalized("1", "A", s) : s \in FilterStarts}

InitStage ==
    /\ token = "tok"
    /\ log = <<>>
    /\ state = 1
    /\ page = 1
    /\ results = <<>>
    /\ warnings = <<>>
    /\ all_raw = <<>>
    /\ all_warnings = <<>>
    /\ now = 0
    /\ unique = <<>>
    /\ jsonFile = PreviousRun
    /\ mdFile = PreviousRun
    /\ exitCode = NotExited

InitFilter ==
    /\ InitStage
    /\ pc = "filter"
    /\ normalized \in BoundedSeq(FilterInputs, MaxLen)
    /\ upcoming = <<>>

NextFilter == \E n \in NowValues : FilterStep(n)

SpecFilter == InitFilter /\ [][NextFilter]_vars

---------------------------------------------------------------------------
(* the deduplication on its own: every input sequence up to MaxLen *)

DedupInputs ==
    {Normalized(id, name, s) :
        id \in {"1", "2"}, name \in {None, "A", "B"},
        s \in {NoStart, Naive(InWindowTime), Naive(InWindowTime + 1)}}

InitDedup ==
    /\ InitStage
    /\ pc = "dedup"
    /\ normalized = <<>>
    /\ upcoming \in BoundedSeq(DedupInputs, MaxLen)

NextDedup == DedupStep \/ ReturnAndSave

SpecDedup == InitDedup /\ [][NextDedup]_vars

---------------------------------------------------------------------------
(* Claims *)

NoEventsNotice == <<"No events found within the next", 60, "days.">>

\* the run has ended and events.json has the failure shape
FailureWritten ==
    /\ pc = "exited"
    /\ DOMAIN jsonFile = {"generated", "error"}
    /\ jsonFile.generated = FALSE

\* the searches of log
SearchesOf(l) == {i \in 1..Len(l) : l[i].op = "search"}

KindOf(e) ==
    IF e.raised THEN "token_validation_request_error"
    ELSE IF e.status_code \in {401, 403} THEN "token_invalid_or_forbidden"
    ELSE IF e.status_code = 429 THEN "rate_limited_on_token_validation"
    ELSE "token_validation_http_error"

\* C3: once the identity check is made, either it answered 200 and the run
\* does not end on it, or the run has ended with an error string whose first
\* part is the kind of the outcome: token_validation_request_error for a
\* transport failure, token_invalid_or_forbidden for 401 and 403,
\* rate_limited_on_token_validation for 429, token_validation_http_error
\* for any other status.
C3_ValidationKinds ==
    (log # <<>> /\ log[1].op = "identity") =>
        IF ~log[1].raised /\ log[1].status_code = 200
        THEN ~(pc = "exited" /\ Len(log) = 1)
        ELSE /\ FailureWritten
             /\ Len(jsonFile.error) >= 1
             /\ jsonFile.error[1] = KindOf(log[1])

C3_Witness ==
    /\ FailureWritten
    /\ Len(log) = 1
    /\ log[1].status_code = 403
    /\ jsonFile.error[1] = "token_invalid_or_forbidden"

\* a logged search failed: transport error, a status other than 200, or a
\* 200 whose body is not JSON
Failed(e) == e.raised \/ e.status_code # 200 \/ e.json = "invalid"

\* the failure tag of a failed search
TagOf(e) ==
    IF e.raised THEN "request_error"
    ELSE IF e.status_code = 404 THEN "404"
    ELSE IF e.status_code = 401 THEN "auth_error_http_401"
    ELSE IF e.status_code = 403 THEN "auth_error_http_403"
    ELSE IF e.status_code = 429 THEN "rate_limited_http_429"
    ELSE IF e.status_code # 200 THEN "http_" \o ToString(e.status_code)
    ELSE "invalid_json_response"

\* this step is an iteration of the loop of search_region whose request failed
FailedPageStep ==
    /\ pc = "page"
    /\ Len(log') = Len(log) + 1
    /\ log'[Len(log')].op = "search"
    /\ Failed(log'[Len(log')])

\* no region is asked for a page after one of its pages failed
NoPageAfterFailure ==
    \A i, j \in SearchesOf(log) :
        (i < j /\ log[i].region = log[j].region) => ~Failed(log[i])

\* what an iteration whose request failed does
FailedPageEffect ==
    FailedPageStep =>
        /\ log'[Len(log')].region = DEFAULT_STATES[state]
        /\ log'[Len(log')].page = page
        /\ Len(warnings') = Len(warnings) + 1
        /\ SubSeq(warnings', 1, Len(warnings)) = warnings
        /\ warnings'[Len(warnings')][1] = TagOf(log'[Len(log')])
        /\ warnings'[Len(warnings')][2] = DEFAULT_STATES[state]
        /\ results' = results
        /\ all_raw' = all_raw \o results
        /\ all_warnings' = all_warnings \o warnings'
        /\ pc' # "page"

\* every iteration keeps the events of the earlier pages, in their order
PagesAccumulate ==
    pc = "page" =>
        /\ Len(results') >= Len(results)
        /\ SubSeq(results', 1, Len(results)) = results

\* C4: the iteration of search_region whose request fails (transport error,
\* status other than 200, 200 with a body that is not JSON) appends exactly
\* one warning, made of the failure tag and the region, ends the loop, and
\* returns the events of the earlier pages as accumulated; no later request
\* is for a page of that region; and every iteration appends to the events
\* of the pages before it.
C4_FailedPage ==
    /\ []NoPageAfterFailure
    /\ [][FailedPageEffect /\ PagesAccumulate]_vars

\* page 2 of Montana fails with 403 after page 1 brought an event
C4_Witness ==
    /\ pc = "search_region"
    /\ state = 2
    /\ Len(log) = 4
    /\ log[4].status_code = 403
    /\ Len(all_raw) = 1
    /\ all_warnings = <<<<"auth_error_http_403", "Montana", 256>>>>

\* the identity check answered 200
TokenValid == log # <<>> /\ ~log[1].raised /\ log[1].status_code = 200

\* C5: once the identity check answered 200, whatever the searches return,
\* the run that ends has searched every region, has written the success
\* payload with the warning of each failed search, and exits with status 0.
C5_SearchNeverAborts ==
    (TokenValid /\ pc = "exited") =>
        /\ exitCode = 0
        /\ jsonFile.generated
        /\ \A k \in 1..Len(DEFAULT_STATES) :
              \E i \in SearchesOf(log) : log[i].region = DEFAULT_STATES[k]
        /\ \A i \in SearchesOf(log) :
              Failed(log[i]) =>
                  \E w \in 1..Len(jsonFile.warnings) :
                      /\ jsonFile.warnings[w][1] = TagOf(log[i])
                      /\ jsonFile.warnings[w][2] = log[i].region

\* filter_upcoming has read the clock
FilterCalled == now \in NowValues

\* the start of e parses to a time within [now, now + LOOKAHEAD_DAYS]
ParsesInWindow(e) ==
    /\ e.start.kind \in {"naive", "aware"}
    /\ now <= e.start.t
    /\ e.start.t <= now + LOOKAHEAD_DAYS

\* C6: once filter_upcoming is called on normalized, with now read once and
\* cutoff = now + LOOKAHEAD_DAYS, it has returned exactly the events of
\* normalized whose start parses to a time t with now <= t <= cutoff, in
\* their order.
C6_WindowFilter ==
    FilterCalled =>
        /\ pc \in {"dedup", "return", "exited"}
        /\ exitCode # 1
        /\ upcoming = SelectSeq(normalized, ParsesInWindow)

\* The same of the inputs in which no start carries a UTC offset.
WindowFilterWithoutOffsets ==
    (FilterCalled /\ \A i \in 1..Len(normalized) : normalized[i].start.kind # "aware") =>
        /\ pc \in {"dedup", "return", "exited"}
        /\ exitCode # 1
        /\ upcoming = SelectSeq(normalized, ParsesInWindow)

\* C7: once filter_upcoming is called, whatever the start values are, the
\* run does not end as a failure: the call returned, and the run goes on to
\* a success.
C7_StartNeverFails ==
    FilterCalled =>
        /\ exitCode \in {NotExited, 0}
        /\ pc = "exited" => jsonFile.generated

\* s[i] is the first of s with its (name, start)
IsFirst(s, i) ==
    \A j \in 1..(i - 1) : ~(s[j].name = s[i].name /\ s[j].start = s[i].start)

\* the first occurrences of s from s[i] on, in their order
RECURSIVE FirstsFrom(_, _)
FirstsFrom(s, i) ==
    IF i > Len(s) THEN <<>>
    ELSE (IF IsFirst(s, i) THEN <<s[i]>> ELSE <<>>) \o FirstsFrom(s, i + 1)

\* C8: the deduplication leaves exactly the events of the filtered sequence
\* that are the first with their (name, start), in their order; an absent
\* name or start is a value of the key like any other.
C8_FirstOccurrenceWins ==
    pc \in {"return", "exited"} => unique = FirstsFrom(upcoming, 1)

\* two records without name and start, then one with both: the second goes
C8_Witness ==
    /\ pc = "return"
    /\ Len(upcoming) = 3
    /\ upcoming[1].name = None /\ upcoming[1].start = NoStart
    /\ upcoming[2].name = None /\ upcoming[2].start = NoStart
    /\ upcoming[1].id # upcoming[2].id
    /\ upcoming[3].name = "A"
    /\ unique = <<upcoming[1], upcoming[3]>>

\* events.json has the success shape
SuccessWritten == pc = "exited" /\ jsonFile.generated

\* C9: no two events of a success payload have the same (name, start).
C9_NoDuplicateKeys ==
    SuccessWritten =>
        \A i, j \in 1..Len(jsonFile.events) :
            (/\ jsonFile.events[i].name = jsonFile.events[j].name
             /\ jsonFile.events[i].start = jsonFile.events[j].start) => i = j

\* Montana and Wyoming each return an event of the same name and start,
\* within the window: the payload counts one
C9_Witness ==
    /\ SuccessWritten
    /\ Len(all_raw) = 2
    /\ Len(results) = 1
    /\ all_raw[1].id # all_raw[2].id
    /\ Len(upcoming) = 2
    /\ jsonFile.count = 1

\* C10: in a success payload, count is the number of its events, which is
\* the length of the deduplicated sequence.
C10_CountIsLength ==
    SuccessWritten =>
        /\ jsonFile.count = Len(jsonFile.events)
        /\ jsonFile.count = Len(unique)

\* a payload whose deduplication dropped an event
C10_Witness ==
    /\ SuccessWritten
    /\ jsonFile.count = 1
    /\ Len(jsonFile.events) = 1
    /\ Len(upcoming) > Len(unique)

---------------------------------------------------------------------------
(* The process: the module-level statements, then main *)

\* EVENTBRITE_DAYS: unset (the default "60"), the literal of LOOKAHEAD_DAYS,
\* a string int() rejects
DaysEnv == {None, "60", "sixty"}
\* EVENTBRITE_PAGE_DELAY_SEC: unset (the default "0.5"), a literal, a string
\* float() rejects
DelayEnv == {None, "0.5", "half"}

\* int(os.environ.get("EVENTBRITE_DAYS", "60")) raises ValueError
IntRaises(v) == v \notin {None, "60"}
\* float(os.environ.get("EVENTBRITE_PAGE_DELAY_SEC", "0.5")) raises ValueError
FloatRaises(v) == v \notin {None, "0.5"}

InitProcess ==
    /\ pc = "import"
    /\ token \in Tokens
    /\ log = <<>>
    /\ state = 1
    /\ page = 1
    /\ results = <<>>
    /\ warnings = <<>>
    /\ all_raw = <<>>
    /\ all_warnings = <<>>
    /\ normalized = <<>>
    /\ now = 0
    /\ upcoming = <<>>
    /\ unique = <<>>
    /\ jsonFile = PreviousRun
    /\ mdFile = PreviousRun
    /\ exitCode = NotExited

\* the statements of the module before main is called, with the values of
\* EVENTBRITE_DAYS and EVENTBRITE_PAGE_DELAY_SEC; an exception here is not
\* caught by anything: the interpreter prints it and exits with status 1
ImportModule(days, delay) ==
    /\ pc = "import"
    /\ IF IntRaises(days) \/ FloatRaises(delay)
       THEN pc' = "exited" /\ exitCode' = 1
       ELSE pc' = "get_token" /\ exitCode' = exitCode
    /\ UNCHANGED <<token, log, state, page, results, warnings, all_raw,
                   all_warnings, normalized, now, upcoming, unique, jsonFile,
                   mdFile>>

NextProcess ==
    \/ \E days \in DaysEnv, delay \in DelayEnv : ImportModule(days, delay)
    \/ Next

SpecProcess == InitProcess /\ [][NextProcess]_vars

\* C11: when the process has ended, with whatever exit status, events.json
\* and events.md have both been written by this run.
C11_BothFilesWritten ==
    pc = "exited" =>
        /\ exitCode \in {0, 1, 2}
        /\ jsonFile # PreviousRun
        /\ mdFile # PreviousRun

\* The same of the runs in which main is entered (the module-level
\* statements raised nothing).
BothFilesWrittenByMain == C11_BothFilesWritten

\* events.md is the rendering of no event
EmptyRendering ==
    /\ mdFile # PreviousRun
    /\ mdFile.notice = NoEventsNotice
    /\ mdFile.blocks = <<>>

\* events.json has the failure shape, with the string of an error
FailureShape ==
    /\ DOMAIN jsonFile = {"generated", "error"}
    /\ jsonFile.generated = FALSE
    /\ Len(jsonFile.error) >= 1

\* events.json has the success shape and events.md renders its events
SuccessRendered ==
    /\ "generated" \in DOMAIN jsonFile
    /\ jsonFile.generated
    /\ mdFile # PreviousRun
    /\ Len(mdFile.blocks) = Len(jsonFile.events)
    /\ mdFile = save_markdown(jsonFile.events)

\* C12: when the process has ended, the exit status is 0 exactly when
\* events.json has the success shape and events.md renders its events, and
\* the exit status is 1 or 2 exactly when events.json has the failure shape
\* and events.md is the empty rendering.
C12_StatusAgreesWithFiles ==
    pc = "exited" =>
        /\ (exitCode = 0) <=> SuccessRendered
        /\ (exitCode \in {1, 2}) <=> (FailureShape /\ EmptyRendering)

\* The same of the runs in which main is entered.
StatusAgreesWithFilesInMain == C12_StatusAgreesWithFiles

---------------------------------------------------------------------------
(* normalize_events on its own: every input sequence up to MaxLen *)

FullVenue == RawVenue(Obj, "Hall", RawAddress(Obj, "Helena"))

\* a raw event with every nested member present, and the raw events that
\* differ from it in one member being missing, null, or without its value
NormalizeInputs ==
    { RawEvent("1", RawName(Obj, "A"), RawTime(Obj, Naive(InWindowTime)), FullVenue),
      RawEvent("2", RawName(Missing, None), RawTime(Obj, Naive(InWindowTime)), FullVenue),
      RawEvent("3", RawName(Null, None), RawTime(Obj, Naive(InWindowTime)), FullVenue),
      RawEvent("4", RawName(Obj, None), RawTime(Obj, Naive(InWindowTime)), FullVenue),
      RawEvent("5", RawName(Obj, "A"), RawTime(Missing, NoStart), FullVenue),
      RawEvent("6", RawName(Obj, "A"), RawTime(Null, NoStart), FullVenue),
      RawEvent("7", RawName(Obj, "A"), RawTime(Obj, NoStart), FullVenue),
      RawEvent("8", RawName(Obj, "A"), RawTime(Obj, Naive(InWindowTime)), NoVenue),
      RawEvent("9", RawName(Obj, "A"), RawTime(Obj, Naive(InWindowTime)),
               RawVenue(Null, None, RawAddress(Missing, None))),
      RawEvent("10", RawName(Obj, "A"), RawTime(Obj, Naive(InWindowTime)),
               RawVenue(Obj, None, RawAddress(Missing, None))),
      RawEvent("11", RawName(Obj, "A"), RawTime(Obj, Naive(InWindowTime)),
               RawVenue(Obj, "Hall", RawAddress(Null, None))),
      RawEvent("12", RawName(Obj, "A"), RawTime(Obj, Naive(InWindowTime)),
               RawVenue(Obj, "Hall", RawAddress(Obj, None))) }

InitNormalize ==
    /\ pc = "normalize"
    /\ token = "tok"
    /\ log = <<>>
    /\ state = 1
    /\ page = 1
    /\ results = <<>>
    /\ warnings = <<>>
    /\ all_raw \in BoundedSeq(NormalizeInputs, MaxLen)
    /\ all_warnings = <<>>
    /\ normalized = <<>>
    /\ now = 0
    /\ upcoming = <<>>
    /\ unique = <<>>
    /\ jsonFile = PreviousRun
    /\ mdFile = PreviousRun
    /\ exitCode = NotExited

NextNormalize == NormalizeStep

SpecNormalize == InitNormalize /\ [][NextNormalize]_vars

\* the record n holds what the raw event e alone gives: each member of e as
\* it is, each nested member when the objects around it are there, and the
\* "no value" marker otherwise
DerivedFrom(n, e) ==
    LET hasVenue == e.venue.shape = Obj
        hasAddress == hasVenue /\ e.venue.address.shape = Obj
    IN  /\ n.id = e.id
        /\ n.url = e.url
        /\ n.is_free = e.is_free
        /\ n.status = e.status
        /\ n.name = (IF e.name.shape = Obj THEN e.name.text ELSE None)
        /\ n.start = (IF e.start.shape = Obj THEN e.start.local ELSE NoStart)
        /\ n.end = (IF e.end.shape = Obj THEN e.end.local ELSE NoStart)
        /\ n.venue_name = (IF hasVenue THEN e.venue.name ELSE None)
        /\ n.city = (IF hasAddress THEN e.venue.address.city ELSE None)
        /\ n.state = (IF hasAddress THEN e.venue.address.region ELSE None)
        /\ n.address = (IF hasAddress THEN e.venue.address.localized_address_display
                        ELSE None)

\* C13: normalize_events returns, without raising, a sequence as long as
\* its input whose i-th record is derived from the i-th raw event alone,
\* with the "no value" marker for every nested member that is missing or
\* null.
C13_NormalizePointwise ==
    pc # "normalize" =>
        /\ pc = "filter"
        /\ exitCode = NotExited
        /\ Len(normalized) = Len(all_raw)
        /\ \A i \in 1..Len(all_raw) : DerivedFrom(normalized[i], all_raw[i])

\* a null name, no venue, a null start
C13_Witness ==
    /\ pc = "filter"
    /\ Len(all_raw) = 3
    /\ all_raw[1].name.shape = Null
    /\ all_raw[2].venue.shape = Missing
    /\ all_raw[3].start.shape = Null
    /\ normalized[1].name = None
    /\ normalized[2].venue_name = None
    /\ normalized[2].city = None
    /\ normalized[3].start = NoStart

\* the searches of log up to its i-th entry that are for the region of that
\* entry
SameRegionUpTo(i) ==
    {j \in SearchesOf(log) : j <= i /\ log[j].region = log[i].region}

\* the k-th request for a region asks for its page k
PagesInOrder ==
    \A i \in SearchesOf(log) : log[i].page = Cardinality(SameRegionUpTo(i))

\* a logged search answered 200 with a JSON object that says more items exist
SaysMore(e) == ~e.raised /\ e.status_code = 200 /\ e.json = "object" /\ e.more

\* a region is asked for a further page only after its pages so far said so
NextPageOnlyAfterMore ==
    \A i, j \in SearchesOf(log) :
        (i < j /\ log[i].region = log[j].region) => SaysMore(log[i])

\* in the loop, page is the number of the next page to request
PageIsNext ==
    pc = "page" =>
        page = 1 + Cardinality({j \in SearchesOf(log) :
                                   log[j].region = DEFAULT_STATES[state]})

\* an iteration after which the loop goes on: it sent the request for page,
\* the answer said more, the events of that answer are in results, and the
\* request for the page after it is still to be sent
ContinuingEffect ==
    (pc = "page" /\ pc' = "page") =>
        /\ Len(log') = Len(log) + 2
        /\ log'[Len(log) + 1].op = "search"
        /\ log'[Len(log) + 1].page = page
        /\ SaysMore(log'[Len(log) + 1])
        /\ log'[Len(log) + 2].op = "sleep"
        /\ page' = page + 1
        /\ \E r \in SearchOutcomes(page, MaxRaw - Len(all_raw) - Len(results)) :
              /\ r.pagination = "more"
              /\ results' = results \o r.events

\* C14: the requests for a region ask for its pages 1, 2, ..., k in that
\* order, each once; a page after the first is requested only after every
\* page before it answered 200 with a JSON object saying that more items
\* exist; and the events of a page are in the accumulator before the
\* request for the next page is sent.
C14_PagesInSequence ==
    /\ [](PagesInOrder /\ NextPageOnlyAfterMore /\ PageIsNext)
    /\ [][ContinuingEffect]_vars

\* Montana was asked for pages 1 and 2, each bringing an event, then Wyoming
\* for page 1
C14_Witness ==
    /\ Len(log) = 5
    /\ log[2].region = "Montana" /\ log[2].page = 1
    /\ log[4].region = "Montana" /\ log[4].page = 2
    /\ log[5].region = "Wyoming" /\ log[5].page = 1
    /\ Len(all_raw) = 2

---------------------------------------------------------------------------
(* the whole process for the question of its ending: what the events of a  *)
(* page are plays no part in the loop, so the pages bring only the first   *)
(* and the third of RunEvents (one that is kept, one whose start makes     *)
(* filter_upcoming raise)                                                  *)

PagingEvents == {e \in RunEvents : e.id \in {"1", "3"}}

SearchStepPaging ==
    \E r \in SearchOutcomes(page, MaxRaw - Len(all_raw) - Len(results)) :
        /\ \A i \in 1..Len(r.events) : r.events[i] \in PagingEvents
        /\ SearchPage(r)

NextTerminates ==
    \/ \E days \in DaysEnv, delay \in DelayEnv : ImportModule(days, delay)
    \/ GetToken
    \/ \E r \in ValidateOutcomes : ValidateToken(r)
    \/ EnterRegion
    \/ SearchStepPaging
    \/ NormalizeStep
    \/ \E n \in NowValues : FilterStep(n)
    \/ DedupStep
    \/ ReturnAndSave

\* The process is one thread that runs to its end: the step it is at is
\* taken.  The API answers "more" on at most MaxPages - 1 pages of a region
\* (SearchOutcomes), which is the contract the loop relies on.
SpecTerminates ==
    InitProcess /\ [][NextTerminates]_vars /\ WF_vars(NextTerminates)

\* the run has ended with one of the three exit statuses
Terminated == pc = "exited" /\ exitCode \in {0, 1, 2}

\* an iteration whose answer is 200 with more items never leaves the loop:
\* the region stays the same and the next page is the one to request
MoreKeepsLooping ==
    (/\ pc = "page"
     /\ Len(log') > Len(log)
     /\ SaysMore(log'[Len(log) + 1])) =>
        /\ pc' = "page"
        /\ state' = state
        /\ page' = page + 1
        /\ exitCode' = exitCode

\* C15: when every region's answers reach a failure or the no-more-items
\* signal at some finite page, the run eventually ends with exit status 0,
\* 1 or 2; and the loop has no cap of its own: an answer of 200 with more
\* items always leads to the request for the next page of the same region,
\* so search_region does not return while the API keeps saying more.
C15_EndsWhenApiEnds ==
    /\ <>Terminated
    /\ [][MoreKeepsLooping]_vars

\* a run that ended with exit 0 after asking a region for as many pages as
\* the API offered
C15_Witness ==
    /\ Terminated
    /\ exitCode = 0
    /\ \E i \in SearchesOf(log) : log[i].page = MaxPages

\* the position of a region in the configured order
RegionIndex(region) ==
    CHOOSE i \in 1..Len(DEFAULT_STATES) : DEFAULT_STATES[i] = region

\* the last search logged before the j-th entry, 0 when there is none
SearchBefore(j) ==
    LET before == {i \in SearchesOf(log) : i < j}
    IN  IF before = {} THEN 0
        ELSE CHOOSE i \in before : \A k \in before : k <= i

\* the first request of the run is for page 1 of the first region, and the
\* first request for any later region follows a request for the region just
\* before it whose answer ended that region's pagination
RegionsInOrder ==
    \A j \in SearchesOf(log) :
        LET i == SearchBefore(j)
        IN  IF i = 0
            THEN RegionIndex(log[j].region) = 1 /\ log[j].page = 1
            ELSE \/ log[i].region = log[j].region
                 \/ /\ RegionIndex(log[j].region) =
                           RegionIndex(log[i].region) + 1
                    /\ log[j].page = 1
                    /\ ~SaysMore(log[i])

\* the stages that work on the combined batch
BatchStages == {"normalize", "filter", "dedup", "return"}

\* the batch stages start after the pagination of the last region ended:
\* every region was searched, the last request was for the last region and
\* its answer did not say more
BatchAfterLastRegion ==
    pc \in BatchStages =>
        /\ state = Len(DEFAULT_STATES)
        /\ \A n \in 1..Len(DEFAULT_STATES) :
              \E i \in SearchesOf(log) : log[i].region = DEFAULT_STATES[n]
        /\ log[Len(log)].op = "search"
        /\ log[Len(log)].region = DEFAULT_STATES[Len(DEFAULT_STATES)]
        /\ ~SaysMore(log[Len(log)])

\* a region's search returning appends what it returned to the accumulated
\* raw events and warnings, and moves to the next region or, after the last
\* one, to normalization; nothing else changes the two accumulators, and no
\* request is sent once the batch stages started
RegionReturnEffect ==
    /\ (pc = "page" /\ pc' \in {"search_region", "normalize"}) =>
          /\ all_raw' = all_raw \o results'
          /\ all_warnings' = all_warnings \o warnings'
          /\ IF state < Len(DEFAULT_STATES)
             THEN state' = state + 1 /\ pc' = "search_region"
             ELSE state' = state /\ pc' = "normalize"
    /\ ~(pc = "page" /\ pc' \in {"search_region", "normalize"}) =>
          /\ all_raw' = all_raw
          /\ all_warnings' = all_warnings
    /\ pc \in BatchStages => log' = log
    /\ (pc = "normalize" /\ pc' = "filter") =>
          normalized' = normalize_events(all_raw)

\* C16: regions are searched one at a time in the configured order; the
\* first request for a region is sent only after the pagination of the
\* region before it ended; the accumulated raw events and warnings are the
\* concatenation, in region order, of what each region's search returned;
\* normalization, filtering and deduplication start only after the last
\* region's pagination ended, on the whole accumulated batch.
C16_RegionsInSequence ==
    /\ [](RegionsInOrder /\ BatchAfterLastRegion)
    /\ [][RegionReturnEffect]_vars

\* both regions returned an event and a warning, and normalization is about
\* to start on the two events
C16_Witness ==
    /\ pc = "normalize"
    /\ Len(all_raw) = 2
    /\ Len(all_warnings) = 2
    /\ all_warnings[1][2] = "Montana"
    /\ all_warnings[2][2] = "Wyoming"
    /\ \E i, j \in SearchesOf(log) :
          /\ log[i].region = "Montana" /\ SaysMore(log[i])
          /\ log[j].region = "Wyoming" /\ SaysMore(log[j])

\* the positions of the pauses in a log
SleepsOf(l) == {i \in 1..Len(l) : l[i].op = "sleep"}

\* a pause directly follows a request whose answer said more, and what
\* follows it is the request for the next page of the same region; while
\* that request is still to be sent the loop is about to send it
SleepOnlyBetweenPages ==
    \A i \in SleepsOf(log) :
        /\ i > 1
        /\ log[i - 1].op = "search"
        /\ log[i - 1].region = log[i].region
        /\ log[i - 1].page = log[i].page
        /\ SaysMore(log[i - 1])
        /\ IF i < Len(log)
           THEN /\ log[i + 1].op = "search"
                /\ log[i + 1].region = log[i].region
                /\ log[i + 1].page = log[i].page + 1
           ELSE /\ pc = "page"
                /\ DEFAULT_STATES[state] = log[i].region
                /\ page = log[i].page + 1

\* two successive requests of one region have exactly one pause between
\* them; the last request of a region and the first of the next have none;
\* the first request follows the identity check with no pause
OneSleepBetweenPages ==
    \A j \in SearchesOf(log) :
        LET i == SearchBefore(j)
        IN  IF i = 0
            THEN j = 2 /\ log[1].op = "identity"
            ELSE IF log[i].region = log[j].region
            THEN j = i + 2 /\ log[i + 1].op = "sleep"
            ELSE j = i + 1

\* no pause is left pending once a region's pagination ended
NoSleepAfterLastPage ==
    (pc # "page" /\ log # <<>>) => log[Len(log)].op # "sleep"

\* C17: the inter-page delay occurs exactly once between every two
\* successive page requests of the same region and nowhere else: not before
\* page 1 of a region, not after the last page of a region (ended by a
\* failure or by the no-more-items signal), not between the last request of
\* one region and the first request of the next.
C17_SleepBetweenPagesOnly ==
    SleepOnlyBetweenPages /\ OneSleepBetweenPages /\ NoSleepAfterLastPage

\* a finished run: Montana's page 1, the pause, Montana's page 2 which
\* failed, then Wyoming's page 1 with no pause before or after it
C17_Witness ==
    /\ pc = "exited"
    /\ exitCode = 0
    /\ Len(log) = 5
    /\ log[3].op = "sleep"
    /\ log[4].region = "Montana" /\ Failed(log[4])
    /\ log[5].region = "Wyoming" /\ log[5].page = 1

---------------------------------------------------------------------------
(* the batch stages after normalization on their own: filter_upcoming, the *)
(* deduplication and the writing of the payload, on every sequence of up   *)
(* to MaxLen normalized records of FilterInputs                            *)

NextBatch == NextFilter \/ NextDedup

SpecBatch == InitFilter /\ [][NextBatch]_vars

\* every event of the success payload has a start that is there, parses and
\* lies in the window of the clock reading of this run's filter
PayloadStartsInWindow ==
    SuccessWritten =>
        \A i \in 1..Len(jsonFile.events) :
            /\ TruthyStart(jsonFile.events[i].start)
            /\ ParsesInWindow(jsonFile.events[i])

\* the events that the deduplication of fetch_events works on have a start,
\* so the start part of their key is never None
KeysHaveStart ==
    (pc \in {"dedup", "return"} \/ SuccessWritten) =>
        \A i \in 1..Len(upcoming) :
            /\ upcoming[i].start # NoStart
            /\ Key(upcoming[i])[2].kind # "none"

\* C18: every event in the events list of a success payload has a present
\* start value that parses and lies within [now, now + LOOKAHEAD_DAYS] for
\* the now of that run's window filter; so the key of an event that reaches
\* the deduplication inside fetch_events never has an absent start.
C18_PayloadInWindow == PayloadStartsInWindow /\ KeysHaveStart

\* a success payload with the events at both ends of the window, written by
\* a run whose first record had no start and was dropped
C18_Witness ==
    /\ SuccessWritten
    /\ Len(normalized) = 3
    /\ normalized[1].start = NoStart
    /\ Len(jsonFile.events) = 2
    /\ jsonFile.events[1].start = Naive(now)
    /\ jsonFile.events[2].start = Naive(now + LOOKAHEAD_DAYS)

\* the positions in ws of the warnings about a region
WarningsFor(ws, region) == {i \in 1..Len(ws) : ws[i][2] = region}

\* the last search logged for a region, 0 when there is none
LastSearchOf(region) ==
    LET of == {i \in SearchesOf(log) : log[i].region = region}
    IN  IF of = {} THEN 0
        ELSE CHOOSE i \in of : \A k \in of : k <= i

\* a search of one region collects at most one warning, and the accumulated
\* warnings hold at most one for each region and none for anything else
AtMostOneWarningPerRegion ==
    /\ Len(warnings) <= 1
    /\ \A i \in 1..Len(all_warnings) :
          \E n \in 1..Len(DEFAULT_STATES) : all_warnings[i][2] = DEFAULT_STATES[n]
    /\ \A n \in 1..Len(DEFAULT_STATES) :
          Cardinality(WarningsFor(all_warnings, DEFAULT_STATES[n])) <= 1

\* while the loop of a region runs it has no warning: the warning ends it
WarningEndsPagination == pc = "page" => warnings = <<>>

\* a region has a warning exactly when its last request failed; a region
\* whose last request did not fail, so one whose pagination ended on the
\* no-more-items signal, has none
WarningIffLastPageFailed ==
    \A n \in 1..Len(DEFAULT_STATES) :
        LET region == DEFAULT_STATES[n]
            i == LastSearchOf(region)
        IN  IF i # 0 /\ Failed(log[i])
            THEN Cardinality(WarningsFor(all_warnings, region)) = 1
            ELSE /\ WarningsFor(all_warnings, region) = {}
                 /\ WarningsFor(warnings, region) = {}

\* the warnings of a success payload are the accumulated ones, no more of
\* them than there are regions
PayloadWarningsBounded ==
    SuccessWritten =>
        /\ jsonFile.warnings = all_warnings
        /\ Len(jsonFile.warnings) <= Len(DEFAULT_STATES)

\* no step that leaves a warning in the region's list has added an event to
\* the region's results
NoEventAfterWarning == warnings' # <<>> => results' = results

\* C19: each region contributes at most one warning per run, and that
\* warning ends its pagination, no event of the region being accumulated
\* after it; so the warnings of a success payload are at most as many as
\* the regions, and a region whose pagination ended on the no-more-items
\* signal contributes none.
C19_OneWarningPerRegion ==
    /\ [](/\ AtMostOneWarningPerRegion
          /\ WarningEndsPagination
          /\ WarningIffLastPageFailed
          /\ PayloadWarningsBounded)
    /\ [][NoEventAfterWarning]_vars

\* a success payload with events and the one warning of Montana, whose
\* second page failed; Wyoming ended on the no-more-items signal
C19_Witness ==
    /\ SuccessWritten
    /\ Len(jsonFile.events) >= 1
    /\ Len(jsonFile.warnings) = 1
    /\ jsonFile.warnings[1][2] = "Montana"
    /\ log[Len(log)].region = "Wyoming"
    /\ ~Failed(log[Len(log)])
    /\ ~log[Len(log)].more

====
